---------------------------- MODULE Spec2Model ----------------------------
(***************************************************************************)
(* Model of defensive_investor_screener.py: the quota-limited Alpha        *)
(* Vantage client, the seven Graham rule evaluators and evaluate_stock.    *)
(*                                                                         *)
(* Time is counted in whole seconds.  Numbers read from provider records   *)
(* are exact rationals [n, d] (d > 0) where the code uses Python floats.   *)
(* Monetary amounts are written in millions (TLC integers are 32 bit).     *)
(***************************************************************************)
EXTENDS Integers, Sequences, FiniteSets, TLC

VARIABLES
    calls_per_minute,   \* AlphaVantageClient.calls_per_minute
    min_delay,          \* AlphaVantageClient.min_delay
    last_call_time,     \* AlphaVantageClient.last_call_time
    daily_calls,        \* AlphaVantageClient.daily_calls
    max_daily_calls,    \* AlphaVantageClient.max_daily_calls
    now,                \* the clock read by time.time()
    fetches,            \* number of calls of _make_request so far
    dispatched,         \* number of requests.get calls so far
    slept,              \* seconds the last fetch operation spent in time.sleep
    outcome,            \* what the provider did with the last fetch operation
    ret,                \* what the last fetch operation returned
    overview,           \* evaluate_stock: local overview
    income_statement,   \* evaluate_stock: local income_statement (or {})
    balance_sheet,      \* evaluate_stock: local balance_sheet (or {})
    dividends,          \* evaluate_stock: local dividends (or {})
    rules,              \* evaluate_stock: local rules, seven (passed, detail)
    results,            \* evaluate_stock: the returned dict, or None
    calls               \* evaluate_stock: the fetches it made, in order

clientVars == <<calls_per_minute, min_delay, last_call_time, daily_calls,
                max_daily_calls, now, fetches, dispatched, slept, outcome, ret>>
bundleVars == <<overview, income_statement, balance_sheet, dividends>>
evalVars == <<rules, results, calls>>
vars == <<clientVars, bundleVars, evalVars>>

(***************************************************************************)
(* Config                                                                  *)
(***************************************************************************)
CALLS_PER_MINUTE == 5
MAX_DAILY_CALLS == 25
MIN_DIVIDEND_YEARS == 20
MIN_EARNINGS_YEARS == 10
MAX_PE_RATIO == 15

(***************************************************************************)
(* Bounds of the model                                                     *)
(***************************************************************************)
MaxTime == 14          \* the clock is advanced between calls this far
MaxOversleep == 1      \* time.sleep may return this much late
MaxFetches == 28       \* calls of _make_request explored on one client
MaxYears == 11         \* annual reports in a statement series
MaxRun == 21           \* dividend years in a row, counted from BaseYear
MaxOlder == 2          \* dividend years older than the first gap

\* a value a function returns: None, or something (a dataset, a dict)
None == [none |-> TRUE, value |-> <<>>]
Some(x) == [none |-> FALSE, value |-> x]
IsNone(x) == x.none
\* time.time() when the client is constructed: seconds since the epoch, more
\* than any min_delay, so the first request finds last_call_time = 0 long past
StartTime == 60
\* what calls_per_minute the constructor is given; 0 stands for None (or 0)
CallsPerMinuteArgs == {0, 30, 60}
\* what happens to a dispatched request: a dataset comes back, a non-200
\* status, a body with the 'Information' marker, or requests.get raises
Outcomes == {"data", "http", "information", "exception"}
Functions == {"OVERVIEW", "INCOME_STATEMENT", "BALANCE_SHEET", "CASH_FLOW",
              "DIVIDENDS"}

\* the JSON body the provider returns for a function; the client hands it on
\* unread, so the fetch operations carry one body whatever the function
Dataset(function) == "dataset"

(***************************************************************************)
(* AlphaVantageClient                                                      *)
(***************************************************************************)
Client == [min_delay |-> min_delay, last_call_time |-> last_call_time,
           daily_calls |-> daily_calls, max_daily_calls |-> max_daily_calls,
           now |-> now, dispatched |-> dispatched, slept |-> 0]

\* __init__: the state of a client constructed with calls_per_minute = arg
ClientInit(arg) ==
    /\ calls_per_minute = (IF arg # 0 THEN arg ELSE CALLS_PER_MINUTE)
    /\ min_delay = 60 \div calls_per_minute
    /\ last_call_time = 0
    /\ daily_calls = 0
    /\ max_daily_calls = MAX_DAILY_CALLS
    /\ now = StartTime
    /\ fetches = 0
    /\ dispatched = 0
    /\ slept = 0
    /\ outcome = "none"
    /\ ret = None

\* a faulty _rate_limit that never sleeps (C3 rejects it)
RateLimitNoSleep(c, over) ==
    [c EXCEPT !.last_call_time = c.now,
              !.daily_calls = c.daily_calls + 1]

\* _rate_limit on client record c; time.sleep returns `over` seconds late
_rate_limit(c, over) ==
    LET elapsed == c.now - c.last_call_time
        wait == IF elapsed < c.min_delay
                THEN (c.min_delay - elapsed) + over ELSE 0
        t == c.now + wait
    IN  [c EXCEPT !.now = t,
                  !.slept = wait,
                  !.last_call_time = t,
                  !.daily_calls = c.daily_calls + 1]

\* what _make_request returns for a dispatched request, by provider outcome
Response(out, data) == IF out = "data" THEN Some(data) ELSE None

\* a faulty _make_request whose ceiling test is off by one (C1 rejects it)
MakeRequestLateCheck(c, out, data, over) ==
    LET c1 == _rate_limit(c, over)
    IN  IF c.daily_calls > c.max_daily_calls
        THEN [client |-> c, outcome |-> "blocked", ret |-> None]
        ELSE [client |-> [c1 EXCEPT !.dispatched = c.dispatched + 1],
              outcome |-> out, ret |-> Response(out, data)]

\* a faulty _make_request that waits before it tests the ceiling (C2 rejects it)
MakeRequestRateLimitFirst(c, out, data, over) ==
    LET c1 == _rate_limit(c, over)
    IN  IF c.daily_calls >= c.max_daily_calls
        THEN [client |-> [c1 EXCEPT !.daily_calls = c.daily_calls],
              outcome |-> "blocked", ret |-> None]
        ELSE [client |-> [c1 EXCEPT !.dispatched = c.dispatched + 1],
              outcome |-> out, ret |-> Response(out, data)]

\* a faulty _make_request that retries a failed request once (C4 rejects it)
MakeRequestRetry(c, out, data, over) ==
    LET c1 == _rate_limit(c, over)
        c2 == IF out = "data" THEN c1 ELSE _rate_limit(c1, over)
    IN  IF c.daily_calls >= c.max_daily_calls
        THEN [client |-> c, outcome |-> "blocked", ret |-> None]
        ELSE [client |-> [c2 EXCEPT !.dispatched =
                              c.dispatched + (c2.daily_calls - c.daily_calls)],
              outcome |-> out, ret |-> Response(out, data)]

\* a faulty _make_request without the ceiling test (C12 rejects it)
MakeRequestNoCeiling(c, out, data, over) ==
    LET c1 == _rate_limit(c, over)
    IN  [client |-> [c1 EXCEPT !.dispatched = c.dispatched + 1],
         outcome |-> out, ret |-> Response(out, data)]

\* _make_request: the client after the call, the outcome, the value returned
_make_request(c, out, data, over) ==
    LET c1 == _rate_limit(c, over)
    IN  IF c.daily_calls >= c.max_daily_calls
        THEN [client |-> c, outcome |-> "blocked", ret |-> None]
        ELSE [client |-> [c1 EXCEPT !.dispatched = c.dispatched + 1],
              outcome |-> out, ret |-> Response(out, data)]

\* the client variables take the values of client record c
StoreClient(c) ==
    /\ last_call_time' = c.last_call_time
    /\ daily_calls' = c.daily_calls
    /\ now' = c.now
    /\ dispatched' = c.dispatched
    /\ UNCHANGED <<calls_per_minute, min_delay, max_daily_calls>>

\* _get_data / get_dividends: one public fetch operation
Fetch(function) ==
    /\ fetches < MaxFetches
    /\ \E out \in Outcomes, over \in 0..MaxOversleep :
          LET r == _make_request(Client, out, Dataset(function), over)
          IN  /\ StoreClient(r.client)
              /\ slept' = r.client.slept
              /\ outcome' = r.outcome
              /\ ret' = r.ret
    /\ fetches' = fetches + 1
    /\ UNCHANGED <<bundleVars, evalVars>>

get_overview == Fetch("OVERVIEW")
get_income_statement == Fetch("INCOME_STATEMENT")
get_balance_sheet == Fetch("BALANCE_SHEET")
get_cash_flow == Fetch("CASH_FLOW")
get_dividends == Fetch("DIVIDENDS")

\* the clock advances between two operations
Tick ==
    /\ now < StartTime + MaxTime
    /\ now' = now + 1
    /\ UNCHANGED <<calls_per_minute, min_delay, last_call_time, daily_calls,
                   max_daily_calls, fetches, dispatched, slept, outcome, ret>>
    /\ UNCHANGED <<bundleVars, evalVars>>

NoEvaluation ==
    /\ overview = None
    /\ income_statement = None
    /\ balance_sheet = None
    /\ dividends = None
    /\ rules = <<>>
    /\ results = None
    /\ calls = <<>>

Init ==
    /\ \E arg \in CallsPerMinuteArgs : ClientInit(arg)
    /\ NoEvaluation

Next ==
    \/ Tick
    \/ get_overview
    \/ get_income_statement
    \/ get_balance_sheet
    \/ get_cash_flow
    \/ get_dividends

Spec == Init /\ [][Next]_vars

(***************************************************************************)
(* Exact arithmetic for the floats of the code                             *)
(***************************************************************************)
Abs(i) == IF i < 0 THEN -i ELSE i
Min(a, b) == IF a < b THEN a ELSE b

RECURSIVE Gcd(_, _)
Gcd(a, b) == IF b = 0 THEN a ELSE Gcd(b, a % b)

\* the rational n/d (d # 0) in lowest terms with a positive denominator
Norm(n, d) ==
    LET g == Gcd(Abs(n), Abs(d))
        sgn == IF d < 0 THEN -1 ELSE 1
    IN  [n |-> (sgn * n) \div g, d |-> (sgn * d) \div g]

R(i) == [n |-> i, d |-> 1]
RAdd(a, b) == Norm(a.n * b.d + b.n * a.d, a.d * b.d)
RSub(a, b) == Norm(a.n * b.d - b.n * a.d, a.d * b.d)
RDiv(a, b) == Norm(a.n * b.d, a.d * b.n)          \* b.n # 0
RAbs(a) == [n |-> Abs(a.n), d |-> a.d]
RLt(a, b) == a.n * b.d < b.n * a.d
RLe(a, b) == a.n * b.d <= b.n * a.d

RECURSIVE RSum(_)
RSum(s) == IF s = <<>> THEN R(0) ELSE RAdd(s[1], RSum(Tail(s)))

\* s[:n]
Take(s, n) == SubSeq(s, 1, Min(n, Len(s)))

(***************************************************************************)
(* Config: the thresholds that are not whole numbers, or are scaled        *)
(***************************************************************************)
MIN_MARKET_CAP == 10000                  \* 10_000_000_000, in millions
MIN_CURRENT_RATIO == R(2)                \* 2.0
MIN_EARNINGS_GROWTH == [n |-> 1, d |-> 3]    \* 1/3
MAX_PB_RATIO == [n |-> 3, d |-> 2]           \* 1.5

(***************************************************************************)
(* Provider records.  A value of a record is                               *)
(*   absent  the key is missing          null   JSON null                  *)
(*   empty   ''     None  'None'         dash   '-'                        *)
(*   text    a string float() rejects    num    a string float() reads n/d *)
(***************************************************************************)
Raw(k, n, d, str) == [k |-> k, n |-> n, d |-> d, s |-> str]
Absent == Raw("absent", 0, 1, "")
Null == Raw("null", 0, 1, "")
Empty == Raw("empty", 0, 1, "")
NoneStr == Raw("None", 0, 1, "None")
Dash == Raw("dash", 0, 1, "-")
Text(str) == Raw("text", 0, 1, str)
Num(n) == Raw("num", n, 1, "")
Dec(n, d) == Raw("num", n, d, "")
Unusable == {Absent, Null, Empty, NoneStr, Dash, Text("abc")}

\* data.get(field)
Get(data, field) == IF field \in DOMAIN data THEN data[field] ELSE Absent

\* a faulty get_field that reads an unusable value as 1.0 (C7 rejects it)
GetFieldLenient(data, field) ==
    LET value == Get(data, field)
    IN  IF value.k = "num"
        THEN [ok |-> TRUE, val |-> Norm(value.n, value.d), err |-> <<>>]
        ELSE [ok |-> TRUE, val |-> R(1), err |-> <<>>]

\* get_field: the float, or the ValueError raised (err: field and reason)
get_field(data, field) ==
    LET value == Get(data, field)
    IN  IF value.k \in {"absent", "null", "empty", "None", "dash"}
        THEN [ok |-> FALSE, val |-> R(0), err |-> <<field, "N/A">>]
        ELSE IF value.k = "num"
        THEN [ok |-> TRUE, val |-> Norm(value.n, value.d), err |-> <<>>]
        ELSE [ok |-> FALSE, val |-> R(0), err |-> <<field, "invalid">>]

\* a statement dataset: has says whether the key 'annualReports' is there
EmptyDict == [has |-> FALSE, annualReports |-> <<>>]
Statement(reports) == [has |-> TRUE, annualReports |-> reports]
\* 'annualReports' not in d or not d['annualReports']
NoReports(ds) == ~ds.has \/ ds.annualReports = <<>>

(***************************************************************************)
(* Rule outcomes: (passed, detail).  A detail is the message template, the *)
(* numbers put into it (before formatting) and, for "error (...)", the     *)
(* text of the exception; rule 2 adds its interest coverage list.          *)
(***************************************************************************)
Outcome(passed, msg, args) ==
    [passed |-> passed,
     detail |-> [msg |-> msg, args |-> args, err |-> <<>>, coverage |-> <<>>]]
\* except Exception as e: return False, f"error ({str(e)})"
Error(err) ==
    [passed |-> FALSE,
     detail |-> [msg |-> "error", args |-> <<>>, err |-> err, coverage |-> <<>>]]
ZeroDivision == <<"float division by zero">>

\* check_rule_1_size
check_rule_1_size(ov) ==
    LET market_cap == get_field(ov, "MarketCapitalization")
        passed == RLt(R(MIN_MARKET_CAP), market_cap.val)
    IN  IF ~market_cap.ok THEN Error(market_cap.err)
        ELSE IF passed
        THEN Outcome(TRUE, "market cap $B", <<market_cap.val>>)
        ELSE Outcome(FALSE, "market cap $B (< $10B)", <<market_cap.val>>)

\* check_rule_7_price_to_book
check_rule_7_price_to_book(ov) ==
    LET pb_ratio == get_field(ov, "PriceToBookRatio")
        passed == RLt(pb_ratio.val, MAX_PB_RATIO)
    IN  IF ~pb_ratio.ok THEN Error(pb_ratio.err)
        ELSE IF passed
        THEN Outcome(TRUE, "P/B", <<pb_ratio.val>>)
        ELSE Outcome(FALSE, "P/B (>= 1.5)", <<pb_ratio.val>>)

\* check_rule_3_earnings_stability
\* the first report of s whose netIncome get_field rejects, or 0
RECURSIVE FirstUnusable(_, _, _)
FirstUnusable(s, field, i) ==
    IF i > Len(s) THEN 0
    ELSE IF ~get_field(s[i], field).ok THEN i
    ELSE FirstUnusable(s, field, i + 1)

\* a faulty rule 3 that passes with 9 positive years (C9 rejects it)
Rule3NineSuffice(income) ==
    LET reports == Take(income.annualReports, MIN_EARNINGS_YEARS)
        bad == FirstUnusable(reports, "netIncome", 1)
        positive_years == Cardinality({i \in 1..Len(reports) :
            RLt(R(0), get_field(reports[i], "netIncome").val)})
    IN  IF NoReports(income)
        THEN Outcome(FALSE, "no income statement data", <<>>)
        ELSE IF Len(reports) < MIN_EARNINGS_YEARS
        THEN Outcome(FALSE, "need 10 years of data (only N available)",
                     <<R(Len(reports))>>)
        ELSE IF bad # 0
        THEN Error(get_field(reports[bad], "netIncome").err)
        ELSE Outcome(positive_years >= MIN_EARNINGS_YEARS - 1,
                     "positive earnings N/10 years", <<R(positive_years)>>)

\* reports[:10], the shortfall, then the count of positive years
check_rule_3_earnings_stability(income) ==
    LET reports == Take(income.annualReports, MIN_EARNINGS_YEARS)
        bad == FirstUnusable(reports, "netIncome", 1)
        positive_years == Cardinality({i \in 1..Len(reports) :
            RLt(R(0), get_field(reports[i], "netIncome").val)})
    IN  IF NoReports(income)
        THEN Outcome(FALSE, "no income statement data", <<>>)
        ELSE IF Len(reports) < MIN_EARNINGS_YEARS
        THEN Outcome(FALSE, "need 10 years of data (only N available)",
                     <<R(Len(reports))>>)
        ELSE IF bad # 0
        THEN Error(get_field(reports[bad], "netIncome").err)
        ELSE Outcome(positive_years = MIN_EARNINGS_YEARS,
                     "positive earnings N/10 years", <<R(positive_years)>>)

\* check_rule_2_financial_condition
\* str.lower() on the sector names the bundles use
Lower(str) ==
    IF str \in {"UTILITIES", "Utilities", "utilities"} THEN "utilities"
    ELSE IF str \in {"TECHNOLOGY", "technology"} THEN "technology"
    ELSE str

\* one entry of interest_coverage_list: the ratio, or "N/A"
Coverage(report) ==
    LET ebit == get_field(report, "ebit")
        interest_expense == get_field(report, "interestExpense")
    IN  IF ebit.ok /\ interest_expense.ok /\ RLt(R(0), interest_expense.val)
        THEN [na |-> FALSE, val |-> RDiv(ebit.val, interest_expense.val)]
        ELSE [na |-> TRUE, val |-> R(0)]

InterestCoverageList(income) ==
    IF NoReports(income) THEN <<>>
    ELSE LET reports == Take(income.annualReports, 7)
         IN  [i \in 1..Len(reports) |-> Coverage(reports[i])]

\* a faulty rule 2 that fails a company with a year of coverage missing
\* (C11 rejects it)
CoverageGates(out, income) ==
    LET list == InterestCoverageList(income)
    IN  [out EXCEPT !.detail.coverage = list,
                    !.passed = out.passed /\ \A i \in 1..Len(list) : ~list[i].na]

\* the outcome with interest_coverage_str added to its detail
WithCoverage(out, income) ==
    [out EXCEPT !.detail.coverage = InterestCoverageList(income)]

Rule2Utility(latest, income) ==
    LET long_term_debt == get_field(latest, "longTermDebt").val
        short_term_debt == get_field(latest, "shortTermDebt").val
        total_debt == RAdd(long_term_debt, short_term_debt)
        total_equity == get_field(latest, "totalShareholderEquity").val
        has_ratio == RLt(R(0), total_equity)
        debt_to_equity_ratio == RDiv(total_debt, total_equity)
        passed == has_ratio /\ RLt(debt_to_equity_ratio, R(2))
    IN  IF ~has_ratio
        THEN WithCoverage(Outcome(FALSE, "debt/equity N/A (negative equity)",
                                  <<>>), income)
        ELSE IF passed
        THEN WithCoverage(Outcome(TRUE, "debt/equity",
                                  <<debt_to_equity_ratio>>), income)
        ELSE WithCoverage(Outcome(FALSE, "debt/equity (>= 2.0)",
                                  <<debt_to_equity_ratio>>), income)

Rule2NonUtility(latest, income) ==
    LET long_term_debt == get_field(latest, "longTermDebt").val
        ca == get_field(latest, "totalCurrentAssets")
        cl == get_field(latest, "totalCurrentLiabilities")
        current_ratio == RDiv(ca.val, cl.val)
        working_capital == RSub(ca.val, cl.val)
        ratio_ok == RLt(MIN_CURRENT_RATIO, current_ratio)
        debt_ok == RLt(long_term_debt, working_capital)
        msg == IF ratio_ok
               THEN (IF debt_ok THEN "current ratio, long-term debt"
                     ELSE "current ratio, long-term debt (>= working capital)")
               ELSE (IF debt_ok THEN "current ratio (<= 2.0), long-term debt"
                     ELSE "current ratio (<= 2.0), long-term debt (>= working capital)")
    IN  IF ~ca.ok THEN Error(ca.err)
        ELSE IF ~cl.ok THEN Error(cl.err)
        ELSE IF cl.val.n = 0 THEN Error(ZeroDivision)
        ELSE WithCoverage(Outcome(ratio_ok /\ debt_ok, msg,
                 <<current_ratio, long_term_debt, working_capital>>), income)

check_rule_2_financial_condition(balance, income, ov) ==
    IF NoReports(balance) THEN Outcome(FALSE, "no balance sheet data", <<>>)
    ELSE
    LET latest == balance.annualReports[1]
        long_term_debt == get_field(latest, "longTermDebt")
        short_term_debt == get_field(latest, "shortTermDebt")
        total_equity == get_field(latest, "totalShareholderEquity")
        sector == Get(ov, "Sector")
    IN  IF ~long_term_debt.ok THEN Error(long_term_debt.err)
        ELSE IF ~short_term_debt.ok THEN Error(short_term_debt.err)
        ELSE IF ~total_equity.ok THEN Error(total_equity.err)
        ELSE IF sector.k = "null"
        THEN Error(<<"'NoneType' object has no attribute 'lower'">>)
        ELSE IF sector.k # "absent" /\ Lower(sector.s) = "utilities"
        THEN Rule2Utility(latest, income)
        ELSE Rule2NonUtility(latest, income)

\* check_rule_4_dividend_record
\* a dividends dataset: has says whether the key 'data' is there
NoDividends == [has |-> FALSE, data |-> <<>>]
Dividends(records) == [has |-> TRUE, data |-> records]

\* an ex_dividend_date: a 'Y-M-D' string, or something that is none
Date(y, m, d) == [k |-> "date", y |-> y, m |-> m, d |-> d]
NoDate == [k |-> "absent", y |-> 0, m |-> 0, d |-> 0]
EmptyDate == [k |-> "empty", y |-> 0, m |-> 0, d |-> 0]
BadDate == [k |-> "text", y |-> 0, m |-> 0, d |-> 0]

IsLeap(y) == (y % 4 = 0 /\ y % 100 # 0) \/ y % 400 = 0
DaysInMonth(y, m) ==
    IF m = 2 THEN (IF IsLeap(y) THEN 29 ELSE 28)
    ELSE IF m \in {4, 6, 9, 11} THEN 30 ELSE 31

\* if ex_date: datetime.strptime(ex_date, '%Y-%m-%d') succeeds
ParsesAsDate(x) ==
    /\ x.k = "date"
    /\ x.y \in 1..9999
    /\ x.m \in 1..12
    /\ x.d >= 1 /\ x.d <= DaysInMonth(x.y, x.m)

YearsWithDividends(data) ==
    {data[i].ex_dividend_date.y : i \in {j \in 1..Len(data) :
                                   ParsesAsDate(data[j].ex_dividend_date)}}

SetMax(S) == CHOOSE x \in S : \A y \in S : y <= x

\* sorted(years, reverse=True)
RECURSIVE SortedDescending(_)
SortedDescending(S) ==
    IF S = {} THEN <<>>
    ELSE LET m == SetMax(S) IN <<m>> \o SortedDescending(S \ {m})

\* the loop over sorted_years: consecutive_years when it ends or breaks
RECURSIVE Run(_, _, _)
Run(sorted_years, i, consecutive_years) ==
    IF i > Len(sorted_years) THEN consecutive_years
    ELSE IF i = 1 THEN Run(sorted_years, 2, 1)
    ELSE IF sorted_years[i] = sorted_years[i - 1] - 1
    THEN Run(sorted_years, i + 1, consecutive_years + 1)
    ELSE consecutive_years

check_rule_4_dividend_record(ov, divs) ==
    LET dividend_yield == get_field(ov, "DividendYield")
        pct == [n |-> dividend_yield.val.n * 100, d |-> dividend_yield.val.d]
        years_with_dividends == YearsWithDividends(divs.data)
        sorted_years == SortedDescending(years_with_dividends)
        consecutive_years == Run(sorted_years, 1, 0)
    IN  IF ~dividend_yield.ok THEN Error(dividend_yield.err)
        ELSE IF ~divs.has \/ divs.data = <<>>
        THEN Outcome(FALSE, "dividend yield % (history not available)", <<pct>>)
        ELSE IF years_with_dividends = {}
        THEN Outcome(FALSE, "no valid dividend dates found", <<>>)
        ELSE IF consecutive_years >= MIN_DIVIDEND_YEARS
        THEN Outcome(TRUE, "dividend yield %, N consecutive years",
                     <<pct, R(consecutive_years)>>)
        ELSE Outcome(FALSE, "only N consecutive years (< 20)",
                     <<R(consecutive_years)>>)

\* check_rule_5_earnings_growth, check_rule_6_pe_ratio
\* one year's EPS: net income / shares outstanding, or None
Eps(income_report, balance_report) ==
    LET net_income == get_field(income_report, "netIncome")
        shares_outstanding ==
            get_field(balance_report, "commonStockSharesOutstanding")
    IN  IF net_income.ok /\ shares_outstanding.ok /\ shares_outstanding.val.n # 0
        THEN [ok |-> TRUE, val |-> RDiv(net_income.val, shares_outstanding.val)]
        ELSE [ok |-> FALSE, val |-> R(0)]

\* zip(income[:n], balance[:n]) mapped to EPS
EpsValues(income, balance, n) ==
    [i \in 1..Min(n, Min(Len(income.annualReports), Len(balance.annualReports)))
        |-> Eps(income.annualReports[i], balance.annualReports[i])]

IsUsable(e) == e.ok
ValuesOf(eps) == [i \in 1..Len(eps) |-> eps[i].val]
\* [eps_values[i] for i in range(a - 1, b) if eps_values[i] is not None]
Window(eps_values, a, b) ==
    ValuesOf(SelectSeq(SubSeq(eps_values, a, b), IsUsable))

Average(s) == RDiv(RSum(s), R(Len(s)))

\* range(3) and range(7, 10), counted from 1
EndingFirst == 1
EndingLast == 3
BeginningLast == 10
\* a faulty window start, "years 7-9" as the comment at line 339 words it
BeginningFirstContiguous == BeginningLast - 3
BeginningFirst == 8

\* a faulty comparison that passes growth of exactly 1/3 (C10 rejects it)
GrowthPassesAtThreshold(growth) == RLe(MIN_EARNINGS_GROWTH, growth)
\* growth > Config.MIN_EARNINGS_GROWTH
GrowthPasses(growth) == RLt(MIN_EARNINGS_GROWTH, growth)

check_rule_5_earnings_growth(income, balance) ==
    LET eps_values == EpsValues(income, balance, 10)
        usable == Len(SelectSeq(eps_values, IsUsable))
        ending_eps == Window(eps_values, EndingFirst, EndingLast)
        beginning_eps == Window(eps_values, BeginningFirst, BeginningLast)
        ending_avg == Average(ending_eps)
        beginning_avg == Average(beginning_eps)
        growth == RDiv(RSub(ending_avg, beginning_avg), RAbs(beginning_avg))
        passed == GrowthPasses(growth)
    IN  IF ~income.has \/ Len(income.annualReports) < 10
        THEN Outcome(FALSE, "need 10 years of data (only N available)",
                     <<R(Len(income.annualReports))>>)
        ELSE IF ~balance.has \/ Len(balance.annualReports) < 10
        THEN Outcome(FALSE,
                     "need 10 years of balance sheet data (only N available)",
                     <<R(Len(balance.annualReports))>>)
        ELSE IF usable < 10
        THEN Outcome(FALSE, "need 10 years of EPS data (only N available)",
                     <<R(usable)>>)
        ELSE IF Len(ending_eps) < 3 \/ Len(beginning_eps) < 3
        THEN Outcome(FALSE, "insufficient EPS data for 3-year averages", <<>>)
        ELSE IF RLe(beginning_avg, R(0))
        THEN Outcome(FALSE, "starting 3-year average EPS not positive", <<>>)
        ELSE IF passed
        THEN Outcome(TRUE, "EPS growth %",
                     <<growth, beginning_avg, ending_avg>>
                         \o beginning_eps \o ending_eps)
        ELSE Outcome(FALSE, "EPS growth % (<= 33.3%, per-share basis)",
                     <<growth, beginning_avg, ending_avg>>
                         \o beginning_eps \o ending_eps)

check_rule_6_pe_ratio(ov, income, balance) ==
    LET price == get_field(ov, "50DayMovingAverage")
        eps_values == ValuesOf(SelectSeq(EpsValues(income, balance, 3), IsUsable))
        avg_eps == Average(eps_values)
        price_to_avg_earnings == RDiv(price.val, avg_eps)
        passed == RLt(price_to_avg_earnings, R(MAX_PE_RATIO))
    IN  IF ~price.ok THEN Error(price.err)
        ELSE IF ~income.has \/ Len(income.annualReports) < 3
        THEN Outcome(FALSE, "need 3 years of earnings data", <<>>)
        ELSE IF ~balance.has \/ Len(balance.annualReports) < 3
        THEN Outcome(FALSE, "need 3 years of balance sheet data", <<>>)
        ELSE IF Len(eps_values) < 3
        THEN Outcome(FALSE, "need 3 years of EPS data", <<>>)
        ELSE IF RLe(avg_eps, R(0))
        THEN Outcome(FALSE, "3-year average EPS not positive", <<>>)
        ELSE IF passed
        THEN Outcome(TRUE, "price/avg earnings",
                     <<price_to_avg_earnings, price.val, avg_eps>> \o eps_values)
        ELSE Outcome(FALSE, "price/avg earnings (>= 15)",
                     <<price_to_avg_earnings, price.val>> \o eps_values)

(***************************************************************************)
(* Provider datasets the rule evaluators are applied to                    *)
(***************************************************************************)
OverviewFields == {"Symbol", "Name", "Sector", "MarketCapitalization",
                   "DividendYield", "50DayMovingAverage", "PriceToBookRatio"}

Overview(symbol, sector, cap, yield, price, pb) ==
    [f \in OverviewFields |->
        CASE f = "Symbol" -> symbol
          [] f = "Name" -> Text("International Business Machines")
          [] f = "Sector" -> sector
          [] f = "MarketCapitalization" -> cap
          [] f = "DividendYield" -> yield
          [] f = "50DayMovingAverage" -> price
          [] f = "PriceToBookRatio" -> pb]

\* an overview that passes rules 1, 4, 6 and 7 with the good statements below
GoodOverview(sector) ==
    Overview(Text("IBM"), sector, Num(50000), Dec(3, 100), Num(28), Dec(12, 10))

IncomeReport(net_income) ==
    [netIncome |-> net_income, ebit |-> Num(30), interestExpense |-> Num(4)]

BalanceReport(shares, ltd, std, equity, ca, cl) ==
    [commonStockSharesOutstanding |-> shares, longTermDebt |-> ltd,
     shortTermDebt |-> std, totalShareholderEquity |-> equity,
     totalCurrentAssets |-> ca, totalCurrentLiabilities |-> cl]

GoodBalanceReport == BalanceReport(Num(2), Num(50), Num(10), Num(200),
                                   Num(300), Num(100))

\* net income by year (1 newest): EPS 3 lately, 1 in the oldest years
GoodNetIncome(i) == IF i <= 3 THEN Num(6) ELSE IF i <= 7 THEN Num(18) ELSE Num(2)

GoodIncome(len) == Statement([i \in 1..len |-> IncomeReport(GoodNetIncome(i))])
GoodBalance(len) == Statement([i \in 1..len |-> GoodBalanceReport])

BaseYear == 2023
DividendRecord(date) == [ex_dividend_date |-> date, amount |-> Dec(166, 100)]
\* one payment in each of the n years BaseYear, BaseYear - 1, ...
DividendRun(first, n) == [i \in 1..n |-> DividendRecord(Date(first + 1 - i, 5, 9))]
GoodDividends == Dividends(DividendRun(BaseYear, MIN_DIVIDEND_YEARS))

Reverse(s) == [i \in 1..Len(s) |-> s[Len(s) + 1 - i]]

\* the lengths of a series: none, or about the ten years rules 3 and 5 need
SeriesLengths == {0} \cup ((MIN_EARNINGS_YEARS - 1)..MaxYears)

\* -- income series of len years: years p1 and p2 (0: no such year) report a
\* loss, zero or something unusable
NetIncomeFlaws == {Num(0), Num(-5), NoneStr, Absent, Text("abc")}
FlawedIncome(len, p1, v1, p2, v2) ==
    Statement([i \in 1..len |->
        IncomeReport(IF i = p1 THEN v1 ELSE IF i = p2 THEN v2
                     ELSE GoodNetIncome(i))])

\* -- EPS windows: net income e of the three newest and b of the three oldest
\* of ten years, one share outstanding
EndingIncomes == {3, 4, 5}
BeginningIncomes == {-3, 0, 3, 4}
GrowthIncome(e, b) ==
    Statement([i \in 1..10 |->
        IncomeReport(IF i <= 3 THEN Num(e[i])
                     ELSE IF i >= 8 THEN Num(b[i - 7]) ELSE Num(18))])
UnitBalance == Statement([i \in 1..10 |->
    BalanceReport(Num(1), Num(50), Num(10), Num(200), Num(300), Num(100))])
\* EPS 1.00, 1.00, 1.00 in the oldest years and 1.40, 1.30, 1.50 in the newest
TenShareBalance == Statement([i \in 1..10 |->
    BalanceReport(Num(10), Num(50), Num(10), Num(200), Num(300), Num(100))])

\* -- balance series of len years: year p has field f set to v
ShareFlaws == {Num(0), Num(-1), Dash, Null}
FlawedBalance(len, p, f, v) ==
    Statement([i \in 1..len |->
        IF i = p THEN [GoodBalanceReport EXCEPT ![f] = v]
        ELSE GoodBalanceReport])

\* -- dividend histories: n years in a row from BaseYear, then a one-year gap
\* and k older years; maybe oldest first, maybe a second payment in the
\* newest year, maybe one record whose date does not parse
NoOddDate == Date(0, 0, 0)
OddDates == {NoOddDate, NoDate, EmptyDate, BadDate,
             Date(BaseYear + 7, 2, 30), Date(BaseYear + 7, 13, 1)}
DividendHistory(n, k, up, twice, odd) ==
    Dividends(
        (IF odd = NoOddDate THEN <<>> ELSE <<DividendRecord(odd)>>)
        \o (IF twice /\ n > 0
            THEN <<DividendRecord(Date(BaseYear, 11, 8))>> ELSE <<>>)
        \o (IF up THEN Reverse(DividendRun(BaseYear, n) \o
                               DividendRun(BaseYear - n - 1, k))
            ELSE DividendRun(BaseYear, n) \o DividendRun(BaseYear - n - 1, k)))

\* -- required inputs missing: one overview field, one field of the latest
\* balance sheet, short or missing series
FieldFlaws == {Absent, NoneStr, Text("abc")}
Tech == Text("TECHNOLOGY")
Sectors == {Tech, Text("Utilities"), Absent, Null}
NumericOverviewFields == {"MarketCapitalization", "DividendYield",
                          "50DayMovingAverage", "PriceToBookRatio"}
LatestBalanceFields == {"longTermDebt", "shortTermDebt",
                        "totalShareholderEquity", "totalCurrentAssets",
                        "totalCurrentLiabilities",
                        "commonStockSharesOutstanding"}
FlawedIncomes == {EmptyDict, Statement(<<>>), GoodIncome(2), GoodIncome(9),
                  GoodIncome(10)}
FlawedBalances == {EmptyDict, Statement(<<>>), GoodBalance(2), GoodBalance(10)}
FlawedDividends == {NoDividends, Dividends(<<>>),
                    Dividends(<<DividendRecord(BadDate)>>), GoodDividends}

\* -- rule 2: the sector, the latest balance sheet (the older ones stay good)
\* and an income series of len years whose year p has the given ebit and
\* interestExpense
Rule2Sectors == {Tech, Text("Utilities"), Text("UTILITIES"),
                 Text("utilities"), Absent}
LongTermDebts == {Num(50), Num(70), Num(200)}
Equities == {Num(-40), Num(0), Num(40), Num(200)}
CurrentAssets == {Num(200), Num(300)}
CurrentLiabilities == {Num(0), Num(100)}
LatestBalance2(ltd, equity, ca, cl) ==
    Statement([i \in 1..10 |->
        IF i = 1 THEN BalanceReport(Num(2), ltd, Num(10), equity, ca, cl)
        ELSE GoodBalanceReport])
CoverageFlaws == {<<Num(30), Num(4)>>, <<Num(30), Num(0)>>,
                  <<Num(30), Absent>>, <<NoneStr, Num(4)>>,
                  <<Num(-8), Num(4)>>}
CoverageIncome(len, p, c) ==
    Statement([i \in 1..len |->
        IF i = p
        THEN [IncomeReport(GoodNetIncome(i)) EXCEPT !.ebit = c[1],
                                                    !.interestExpense = c[2]]
        ELSE IncomeReport(GoodNetIncome(i))])
CoverageLengths == {0, 3, 8}

\* the bundle evaluate_stock has assembled
Bundle(ov, income, balance, divs) ==
    /\ overview = ov
    /\ income_statement = income
    /\ balance_sheet = balance
    /\ dividends = divs

Bundles ==
    \/ \E len \in SeriesLengths, p1, p2 \in 0..MaxYears,
          v1, v2 \in NetIncomeFlaws :
          /\ p1 <= len /\ p2 <= len
          /\ (p1 = 0 => p2 = 0 /\ v1 = Num(0))
          /\ (p2 = 0 => v2 = Num(0))
          /\ (p2 # 0 => p1 < p2)
          /\ Bundle(GoodOverview(Tech), FlawedIncome(len, p1, v1, p2, v2),
                    GoodBalance(10), GoodDividends)
    \/ \E e \in [1..3 -> EndingIncomes], b \in [1..3 -> BeginningIncomes] :
          Bundle(GoodOverview(Tech), GrowthIncome(e, b), UnitBalance,
                 GoodDividends)
    \/ Bundle(GoodOverview(Tech), GrowthIncome(<<14, 13, 15>>, <<10, 10, 10>>),
              TenShareBalance, GoodDividends)
    \/ \E len \in SeriesLengths, p \in 0..MaxYears, v \in ShareFlaws :
          /\ p <= len
          /\ (p = 0 => v = Num(0))
          /\ Bundle(GoodOverview(Tech), GoodIncome(10),
                    FlawedBalance(len, p, "commonStockSharesOutstanding", v),
                    GoodDividends)
    \/ \E y \in {Dec(3, 100), NoneStr}, n \in 0..MaxRun, k \in 0..MaxOlder,
          up, twice \in BOOLEAN, odd \in OddDates :
          Bundle([GoodOverview(Tech) EXCEPT !["DividendYield"] = y],
                 GoodIncome(10), GoodBalance(10),
                 DividendHistory(n, k, up, twice, odd))
    \/ \E sector \in Sectors, f \in NumericOverviewFields,
          v \in FieldFlaws \cup {Num(50000)},
          g \in LatestBalanceFields, w \in FieldFlaws \cup {Num(0), Num(2)} :
          Bundle([GoodOverview(sector) EXCEPT ![f] = v], GoodIncome(10),
                 FlawedBalance(10, 1, g, w), GoodDividends)
    \/ \E sector \in Sectors, f \in NumericOverviewFields, v \in FieldFlaws,
          i \in FlawedIncomes, b \in FlawedBalances, d \in FlawedDividends :
          Bundle([GoodOverview(sector) EXCEPT ![f] = v], i, b, d)
    \/ \E sector \in Rule2Sectors, ltd \in LongTermDebts, equity \in Equities,
          ca \in CurrentAssets, cl \in CurrentLiabilities,
          len \in CoverageLengths, p \in {1, 2, 8}, c \in CoverageFlaws :
          /\ p <= len \/ (len = 0 /\ p = 1 /\ c = <<Num(30), Num(4)>>)
          /\ Bundle(GoodOverview(sector), CoverageIncome(len, p, c),
                    LatestBalance2(ltd, equity, ca, cl), GoodDividends)

(***************************************************************************)
(* The seven evaluators in the order evaluate_stock applies them           *)
(***************************************************************************)
RuleNames == <<"Rule 1 (adequate size)",
               "Rule 2 (strong financial condition)",
               "Rule 3 (earnings stability)",
               "Rule 4 (dividend record)",
               "Rule 5 (earnings growth)",
               "Rule 6 (moderate P/E)",
               "Rule 7 (moderate P/B)">>

Rules(ov, income, balance, divs) ==
    <<check_rule_1_size(ov),
      check_rule_2_financial_condition(balance, income, ov),
      check_rule_3_earnings_stability(income),
      check_rule_4_dividend_record(ov, divs),
      check_rule_5_earnings_growth(income, balance),
      check_rule_6_pe_ratio(ov, income, balance),
      check_rule_7_price_to_book(ov)>>

\* the evaluators applied to a bundle already assembled
RunRules ==
    /\ rules = <<>>
    /\ rules' = Rules(overview, income_statement, balance_sheet, dividends)
    /\ UNCHANGED <<clientVars, bundleVars, results, calls>>

InitRules ==
    /\ ClientInit(0)
    /\ Bundles
    /\ rules = <<>>
    /\ results = None
    /\ calls = <<>>

NextRules == RunRules

SpecRules == InitRules /\ [][NextRules]_vars

(***************************************************************************)
(* evaluate_stock                                                          *)
(***************************************************************************)
\* what the provider may answer to the four requests of one evaluation
NoSymbolOverview == [GoodOverview(Tech) EXCEPT !["Symbol"] = Absent]
SmallOverview ==
    Overview(Text("SML"), Tech, Num(5000), Dec(3, 100), Num(28), Dec(2, 1))
OverviewBodies == {GoodOverview(Tech), SmallOverview, NoSymbolOverview}
IncomeBodies == {GoodIncome(10), GoodIncome(9)}
BalanceBodies == {GoodBalance(10)}
DividendBodies == {GoodDividends,
                   Dividends(DividendRun(BaseYear, 3)
                             \o DividendRun(BaseYear - 4, 17))}

\* a faulty test that forgets the Symbol (C6 rejects it)
NoCompanyOnlyWhenNone(ov) == IsNone(ov)
\* not overview or not overview.get('Symbol')
NoCompany(ov) ==
    \/ IsNone(ov)
    \/ Get(ov.value, "Symbol").k \in {"absent", "null", "empty"}

\* x or {}
OrEmpty(x, empty) == IF IsNone(x) THEN empty ELSE x.value

\* the loop over rules: the names of the rules whose passed flag is `flag`
RECURSIVE NamesWhere(_, _, _)
NamesWhere(rs, flag, i) ==
    IF i > Len(rs) THEN <<>>
    ELSE (IF rs[i].passed = flag THEN <<RuleNames[i]>> ELSE <<>>)
         \o NamesWhere(rs, flag, i + 1)

\* a faulty passes_all that is content with six rules (C5 rejects it)
PassesAllButOne(total_passed) == total_passed >= 6
\* results['passes_all']
PassesAll(total_passed) == total_passed = 7

\* the results dict built from the seven outcomes
Results(ov, rs) ==
    LET rules_passed == NamesWhere(rs, TRUE, 1)
        rules_failed == NamesWhere(rs, FALSE, 1)
        total_passed == Len(rules_passed)
    IN  [company_name |-> Get(ov, "Name"),
         current_price |-> Get(ov, "50DayMovingAverage"),
         rules_passed |-> rules_passed,
         rules_failed |-> rules_failed,
         rule_details |-> [i \in 1..Len(rs) |->
                              [name |-> RuleNames[i], detail |-> rs[i].detail]],
         total_passed |-> total_passed,
         passes_all |-> PassesAll(total_passed)]

\* one fetch within evaluate_stock: what was asked, and whether it came back
Call(function, r) ==
    [function |-> function, outcome |-> r.outcome, unavailable |-> IsNone(r.ret)]

\* evaluate_stock on client record c; o and d give the provider's outcome and
\* body for the overview, income, balance sheet and dividend requests
evaluate_stock(c, o, d) ==
    LET r1 == _make_request(c, o[1], d[1], 0)
        r2 == _make_request(r1.client, o[2], d[2], 0)
        r3 == _make_request(r2.client, o[3], d[3], 0)
        r4 == _make_request(r3.client, o[4], d[4], 0)
        ov == r1.ret.value
        income == OrEmpty(r2.ret, EmptyDict)
        balance == OrEmpty(r3.ret, EmptyDict)
        divs == OrEmpty(r4.ret, NoDividends)
        rs == Rules(ov, income, balance, divs)
    IN  IF NoCompany(r1.ret)
        THEN [last |-> r1, overview |-> r1.ret, income_statement |-> None,
              balance_sheet |-> None, dividends |-> None, rules |-> <<>>,
              results |-> None, calls |-> <<Call("OVERVIEW", r1)>>]
        ELSE [last |-> r4, overview |-> r1.ret, income_statement |-> income,
              balance_sheet |-> balance, dividends |-> divs, rules |-> rs,
              results |-> Some(Results(ov, rs)),
              calls |-> <<Call("OVERVIEW", r1), Call("INCOME_STATEMENT", r2),
                          Call("BALANCE_SHEET", r3), Call("DIVIDENDS", r4)>>]

\* the answers to a request: a dataset with one of the bodies, or one of
\* the other outcomes (which carry no body: one stands for all)
AnswersTo(bodies) ==
    {<<"data", b>> : b \in bodies}
    \cup {<<o, CHOOSE b \in bodies : TRUE>> : o \in Outcomes \ {"data"}}

\* one call of evaluate_stock, up to its return
EvaluateStock ==
    /\ calls = <<>>
    /\ fetches < MaxFetches
    /\ \E a1 \in AnswersTo(OverviewBodies), a2 \in AnswersTo(IncomeBodies),
          a3 \in AnswersTo(BalanceBodies), a4 \in AnswersTo(DividendBodies) :
          LET e == evaluate_stock(Client, <<a1[1], a2[1], a3[1], a4[1]>>,
                                  <<a1[2], a2[2], a3[2], a4[2]>>)
          IN  /\ StoreClient(e.last.client)
              /\ fetches' = fetches + Len(e.calls)
              /\ overview' = e.overview
              /\ income_statement' = e.income_statement
              /\ balance_sheet' = e.balance_sheet
              /\ dividends' = e.dividends
              /\ rules' = e.rules
              /\ results' = e.results
              /\ calls' = e.calls
    /\ UNCHANGED <<slept, outcome, ret>>

\* the caller has taken the result; the locals of the call are gone
Return ==
    /\ calls # <<>>
    /\ overview' = None
    /\ income_statement' = None
    /\ balance_sheet' = None
    /\ dividends' = None
    /\ rules' = <<>>
    /\ results' = None
    /\ calls' = <<>>
    /\ UNCHANGED clientVars

\* client = AlphaVantageClient(api_key), as __main__ constructs it
InitEval ==
    /\ ClientInit(0)
    /\ NoEvaluation

NextEval ==
    \/ EvaluateStock
    \/ Return

SpecEval == InitEval /\ [][NextEval]_vars

(***************************************************************************)
(* Claims about the client, checked under Spec                             *)
(***************************************************************************)
\* a step that is one call of _make_request (one public fetch operation)
FetchStep == fetches' = fetches + 1

\* C1: for any sequence of fetch operations with any provider outcomes, the
\* number of requests dispatched never exceeds max_daily_calls, and
\* daily_calls <= max_daily_calls in every reachable state.
C1_CeilingNeverExceeded ==
    /\ daily_calls <= max_daily_calls
    /\ dispatched <= max_daily_calls

\* the ceiling has been reached and a further fetch was attempted
C1_Witness ==
    /\ daily_calls = max_daily_calls
    /\ dispatched = max_daily_calls
    /\ outcome = "blocked"

\* C2: when daily_calls has reached max_daily_calls, a fetch returns None at
\* once: nothing is dispatched, there is no wait (the clock does not move),
\* and last_call_time and daily_calls are unchanged; so a repeated fetch
\* finds the same state and gives the same result.
C2_BlockedFetchIsInert ==
    [][(daily_calls >= max_daily_calls /\ FetchStep) =>
          /\ IsNone(ret')
          /\ outcome' = "blocked"
          /\ dispatched' = dispatched
          /\ slept' = 0
          /\ now' = now
          /\ last_call_time' = last_call_time
          /\ daily_calls' = daily_calls]_vars

\* at the ceiling, two fetches in a row were both turned away
C2_Witness ==
    /\ daily_calls = max_daily_calls
    /\ fetches >= dispatched + 2
    /\ outcome = "blocked"
    /\ IsNone(ret)

\* C3: two consecutive dispatches are at least min_delay apart on the clock:
\* a fetch made sooner than min_delay after the previous dispatch waits until
\* the deadline has passed and dispatches only then.
C3_RateSpacing ==
    [][(dispatched' = dispatched + 1 /\ dispatched >= 1) =>
          /\ last_call_time' - last_call_time >= min_delay
          /\ last_call_time' = now'
          /\ (now - last_call_time < min_delay =>
                /\ slept' >= min_delay - (now - last_call_time)
                /\ now' = now + slept'
                /\ now' >= last_call_time + min_delay)]_vars

\* a second or later dispatch had to wait for the deadline
C3_Witness ==
    /\ dispatched >= 2
    /\ outcome \in Outcomes
    /\ slept > 0
    /\ slept < min_delay

\* C4: a fetch not blocked by the ceiling dispatches exactly one request,
\* adds one to daily_calls and sets last_call_time, whatever the outcome;
\* daily_calls equals the number of dispatched requests; every outcome other
\* than a dataset is returned as None.
C4_OneDispatchPerFetch ==
    [][/\ daily_calls = dispatched
       /\ (daily_calls < max_daily_calls /\ FetchStep) =>
             /\ dispatched' = dispatched + 1
             /\ daily_calls' = daily_calls + 1
             /\ last_call_time' = now'
             /\ now' >= now
             /\ outcome' \in Outcomes
             /\ (outcome' = "data" => ~IsNone(ret'))
             /\ (outcome' # "data" => IsNone(ret'))]_vars

\* a request that raised was counted and answered with None
C4_Witness ==
    /\ dispatched >= 2
    /\ daily_calls = dispatched
    /\ outcome = "exception"
    /\ IsNone(ret)

(***************************************************************************)
(* Claims about the rule evaluators, checked under SpecRules               *)
(***************************************************************************)
\* a value float() reads, and the number it reads
Usable(v) == v.k = "num"
Value(v) == [n |-> v.n, d |-> v.d]
Evaluated == rules # <<>>

IsUtility == Get(overview, "Sector").s \in {"UTILITIES", "Utilities", "utilities"}
LatestBalance == balance_sheet.annualReports[1]
NetIncomeOf(i) == Get(income_statement.annualReports[i], "netIncome")
SharesOf(i) ==
    Get(balance_sheet.annualReports[i], "commonStockSharesOutstanding")
IncomeYears == Len(income_statement.annualReports)
BalanceYears == Len(balance_sheet.annualReports)
ValidYears == {dividends.data[i].ex_dividend_date.y :
                 i \in {j \in 1..Len(dividends.data) :
                          ParsesAsDate(dividends.data[j].ex_dividend_date)}}

\* rule i lacks an input it requires (the sector is not required: without one
\* rule 2 takes the non-utility branch)
Missing(i) ==
    CASE i = 1 -> ~Usable(Get(overview, "MarketCapitalization"))
      [] i = 2 ->
           \/ BalanceYears = 0
           \/ \E f \in {"longTermDebt", "shortTermDebt",
                        "totalShareholderEquity"} :
                 ~Usable(Get(LatestBalance, f))
           \/ /\ ~IsUtility
              /\ \E f \in {"totalCurrentAssets", "totalCurrentLiabilities"} :
                    ~Usable(Get(LatestBalance, f))
      [] i = 3 ->
           \/ IncomeYears < 10
           \/ \E y \in 1..10 : ~Usable(NetIncomeOf(y))
      [] i = 4 ->
           \/ ~Usable(Get(overview, "DividendYield"))
           \/ ValidYears = {}
      [] i = 5 ->
           \/ IncomeYears < 10 \/ BalanceYears < 10
           \/ \E y \in 1..10 : ~Usable(NetIncomeOf(y)) \/ ~Usable(SharesOf(y))
      [] i = 6 ->
           \/ ~Usable(Get(overview, "50DayMovingAverage"))
           \/ IncomeYears < 3 \/ BalanceYears < 3
           \/ \E y \in 1..3 : ~Usable(NetIncomeOf(y)) \/ ~Usable(SharesOf(y))
      [] i = 7 -> ~Usable(Get(overview, "PriceToBookRatio"))

\* C7: every evaluator returns an outcome with a non-empty detail for every
\* bundle, and an evaluator whose required field or series is absent, empty,
\* an absence marker or non-numeric returns passed = false.
C7_MissingInputFails ==
    Evaluated =>
        /\ Len(rules) = 7
        /\ \A i \in 1..7 :
              /\ rules[i].passed \in BOOLEAN
              /\ rules[i].detail.msg # ""
              /\ (Missing(i) => ~rules[i].passed)

\* the price is missing: rule 6 fails with the error, rules 1 and 7 still pass
C7_Witness ==
    /\ Evaluated
    /\ Missing(6) /\ ~Missing(1) /\ ~Missing(7)
    /\ ~rules[6].passed
    /\ rules[6].detail.msg = "error"
    /\ rules[6].detail.err = <<"50DayMovingAverage", "N/A">>
    /\ rules[1].passed
    /\ rules[7].passed

\* the run Y, Y-1, ... of years in S, counted from Y = the newest year in S
LongestRun(S) ==
    LET Y == SetMax(S)
    IN  CHOOSE n \in 1..Cardinality(S) :
            /\ \A j \in 0..(n - 1) : (Y - j) \in S
            /\ (Y - n) \notin S

\* consecutive_years as the detail of rule 4 reports it (-1: not reported)
ReportedYears(out) ==
    IF out.detail.msg = "dividend yield %, N consecutive years"
    THEN out.detail.args[2].n
    ELSE IF out.detail.msg = "only N consecutive years (< 20)"
    THEN out.detail.args[1].n
    ELSE -1

\* C8: for a non-empty dividend history with a validly dated event,
\* consecutive_years is the length of the run of calendar years with an
\* event counted back from the most recent one, and rule 4 passes when that
\* length is at least 20 (and fails when it is less).
C8_DividendRun ==
    (Evaluated /\ dividends.has /\ ValidYears # {}) =>
        /\ rules[4].passed = (LongestRun(ValidYears) >= 20)
        /\ ReportedYears(rules[4]) \in {LongestRun(ValidYears), -1}

\* what holds of rule 4 as coded: the same, once DividendYield is usable
Rule4WithYield ==
    (Evaluated /\ dividends.has /\ ValidYears # {}
       /\ Usable(Get(overview, "DividendYield"))) =>
        /\ rules[4].passed = (LongestRun(ValidYears) >= 20)
        /\ ReportedYears(rules[4]) = LongestRun(ValidYears)

\* twenty years in a row were found and the rule passed
Rule4Passes ==
    /\ Evaluated /\ dividends.has
    /\ Cardinality(ValidYears) > 20
    /\ LongestRun(ValidYears) = 20
    /\ rules[4].passed

PositiveYears ==
    Cardinality({y \in 1..10 :
        Usable(NetIncomeOf(y)) /\ RLt(R(0), Value(NetIncomeOf(y)))})
UnusableYears == {y \in 1..10 : ~Usable(NetIncomeOf(y))}
Shortfall3 ==
    /\ ~rules[3].passed
    /\ IF IncomeYears = 0
       THEN rules[3].detail.msg = "no income statement data"
       ELSE /\ rules[3].detail.msg = "need 10 years of data (only N available)"
            /\ rules[3].detail.args = <<R(IncomeYears)>>
CountOf10 ==
    /\ rules[3].passed = (PositiveYears = 10)
    /\ rules[3].detail.msg = "positive earnings N/10 years"
    /\ rules[3].detail.args = <<R(PositiveYears)>>

\* C9 as claimed: with at least 10 entries rule 3 returns (X == 10, X out of
\* 10 years positive), X counting the usable and strictly positive years of
\* the 10 most recent, also when one of them is unusable; with fewer entries
\* it fails with a shortfall detail.
C9_CountAlways ==
    Evaluated => IF IncomeYears >= 10 THEN CountOf10 ELSE Shortfall3

\* C9 as amended: the count is returned when all 10 most recent years are
\* usable; when one is unusable the rule fails with the error of the first
\* such year and states no count.
C9_CountWhenUsable ==
    Evaluated =>
        IF IncomeYears < 10 THEN Shortfall3
        ELSE IF UnusableYears = {} THEN CountOf10
        ELSE /\ ~rules[3].passed
             /\ rules[3].detail.msg = "error"
             /\ rules[3].detail.err[1] = "netIncome"
             /\ rules[3].detail.args = <<>>

\* ten years, one of them not positive: 9/10 and the rule fails
C9_Witness ==
    /\ Evaluated
    /\ IncomeYears >= 10
    /\ UnusableYears = {}
    /\ PositiveYears = 9
    /\ ~rules[3].passed
    /\ rules[3].detail.args = <<R(9)>>

\* a year whose EPS the code can compute, and that EPS
HasEps(y) ==
    /\ Usable(NetIncomeOf(y))
    /\ Usable(SharesOf(y))
    /\ SharesOf(y).n # 0
EpsOf(y) == RDiv(Value(NetIncomeOf(y)), Value(SharesOf(y)))
EpsYears == Cardinality({y \in 1..10 : HasEps(y)})
SumEps(a, b, c) == RAdd(EpsOf(a), RAdd(EpsOf(b), EpsOf(c)))
CountDetail5 ==
    /\ ~rules[5].passed
    /\ IF IncomeYears < 10
       THEN /\ rules[5].detail.msg = "need 10 years of data (only N available)"
            /\ rules[5].detail.args = <<R(IncomeYears)>>
       ELSE IF BalanceYears < 10
       THEN /\ rules[5].detail.msg =
                  "need 10 years of balance sheet data (only N available)"
            /\ rules[5].detail.args = <<R(BalanceYears)>>
       ELSE /\ rules[5].detail.msg =
                  "need 10 years of EPS data (only N available)"
            /\ rules[5].detail.args = <<R(EpsYears)>>

Rule5Example ==
    /\ Evaluated
    /\ IncomeYears >= 10 /\ BalanceYears >= 10 /\ EpsYears = 10
    /\ EpsOf(8) = R(1) /\ EpsOf(9) = R(1) /\ EpsOf(10) = R(1)
    /\ EpsOf(1) = [n |-> 7, d |-> 5]
    /\ rules[5].passed
    /\ rules[5].detail.args[1] = [n |-> 2, d |-> 5]

(***************************************************************************)
(* Rule 2                                                                  *)
(***************************************************************************)
Latest(f) == Value(Get(LatestBalance, f))
LatestUsable(fs) == \A f \in fs : Usable(Get(LatestBalance, f))
DebtFields == {"longTermDebt", "shortTermDebt", "totalShareholderEquity"}
LiquidityFields == {"totalCurrentAssets", "totalCurrentLiabilities"}
\* rule 2 has what it reads before it looks at the sector, and a sector it
\* can lower-case
Rule2Decidable ==
    /\ BalanceYears > 0
    /\ LatestUsable(DebtFields)
    /\ Get(overview, "Sector").k # "null"
PositiveEquity == RLt(R(0), Latest("totalShareholderEquity"))
\* (long-term debt + short-term debt) / shareholder equity < 2.0
DebtToEquityUnder2 ==
    /\ PositiveEquity
    /\ RLt(RDiv(RAdd(Latest("longTermDebt"), Latest("shortTermDebt")),
                Latest("totalShareholderEquity")), R(2))
\* current assets / current liabilities > 2.0
CurrentRatioOver2 ==
    /\ Latest("totalCurrentLiabilities").n # 0
    /\ RLt(R(2), RDiv(Latest("totalCurrentAssets"),
                      Latest("totalCurrentLiabilities")))
\* long-term debt < current assets - current liabilities
DebtUnderWorkingCapital ==
    RLt(Latest("longTermDebt"),
        RSub(Latest("totalCurrentAssets"), Latest("totalCurrentLiabilities")))
\* what the sector and the latest balance sheet say rule 2 should answer
Rule2Expected ==
    /\ Rule2Decidable
    /\ IF IsUtility THEN DebtToEquityUnder2
       ELSE /\ LatestUsable(LiquidityFields)
            /\ CurrentRatioOver2
            /\ DebtUnderWorkingCapital
\* rule 2 came to a verdict on the numbers (no error, no missing data)
Rule2Reported ==
    /\ Rule2Decidable
    /\ \/ IsUtility
       \/ /\ LatestUsable(LiquidityFields)
          /\ Latest("totalCurrentLiabilities").n # 0

\* interest coverage of income year i: computable, and its value
EbitOf(i) == Get(income_statement.annualReports[i], "ebit")
InterestOf(i) == Get(income_statement.annualReports[i], "interestExpense")
Computable(i) ==
    /\ Usable(EbitOf(i))
    /\ Usable(InterestOf(i))
    /\ RLt(R(0), Value(InterestOf(i)))
CoverageYears == IF IncomeYears < 7 THEN IncomeYears ELSE 7
CoverageInPosition(list) ==
    /\ Len(list) = CoverageYears
    /\ \A i \in 1..CoverageYears :
          /\ list[i].na <=> ~Computable(i)
          /\ Computable(i) =>
                list[i].val = RDiv(Value(EbitOf(i)), Value(InterestOf(i)))

\* other income series the same bundle might have come with
OtherIncomes == {EmptyDict, GoodIncome(10),
                 CoverageIncome(3, 1, <<Num(30), Absent>>)}

\* C11: rule 2's pass/fail is decided only by the sector and the most recent
\* balance sheet record: a utility passes when (long-term debt + short-term
\* debt) / equity < 2.0 and fails with the ratio-not-computable detail when
\* equity is not positive; any other company passes only when current assets
\* / current liabilities > 2.0 and long-term debt < working capital.  The
\* interest coverage list covers up to the 7 most recent income years, with
\* N/A in the position of a year that is not computable, and never changes
\* pass/fail: the same bundle with another income series gets the same passed.
C11_Rule2SectorAndBalanceOnly ==
    Evaluated =>
        /\ rules[2].passed <=> Rule2Expected
        /\ (Rule2Decidable /\ IsUtility /\ ~PositiveEquity) =>
              /\ ~rules[2].passed
              /\ rules[2].detail.msg = "debt/equity N/A (negative equity)"
        /\ Rule2Reported => CoverageInPosition(rules[2].detail.coverage)
        /\ \A other \in OtherIncomes :
              check_rule_2_financial_condition(balance_sheet, other,
                                               overview).passed
                  = rules[2].passed

\* a utility passes on its balance sheet although the second of its eight
\* income years has no computable coverage: seven entries, N/A in place
C11_Witness ==
    /\ Evaluated
    /\ IsUtility
    /\ IncomeYears = 8
    /\ ~Computable(2)
    /\ rules[2].passed
    /\ Len(rules[2].detail.coverage) = 7
    /\ rules[2].detail.coverage[2].na
    /\ ~rules[2].detail.coverage[1].na

\* a non-utility fails at current ratio exactly 2.0
Rule2AtThreshold ==
    /\ Evaluated
    /\ ~IsUtility
    /\ Rule2Reported
    /\ Latest("totalCurrentAssets") = R(200)
    /\ Latest("totalCurrentLiabilities") = R(100)
    /\ Latest("longTermDebt") = R(50)
    /\ ~rules[2].passed

\* a utility with negative equity fails although its ratio is below 2.0
Rule2NegativeEquity ==
    /\ Evaluated
    /\ IsUtility
    /\ Rule2Decidable
    /\ Latest("totalShareholderEquity").n < 0
    /\ ~rules[2].passed

(***************************************************************************)
(* Claims about evaluate_stock, checked under SpecEval                     *)
(***************************************************************************)
\* an evaluation has run and its result has not yet been taken
Called == calls # <<>>
Returned == Called /\ ~IsNone(results)
\* the names of the rules whose outcome has passed = flag
NamesOf(flag) == {RuleNames[i] : i \in {j \in 1..Len(rules) : rules[j].passed = flag}}
Position(name) == CHOOSE i \in 1..Len(RuleNames) : RuleNames[i] = name
\* names is a list of rule names in the order 1..7, none twice
InRuleOrder(names) ==
    \A i, j \in 1..Len(names) :
        i < j => Position(names[i]) < Position(names[j])
Elements(seq) == {seq[i] : i \in 1..Len(seq)}

\* C5: for every result returned by evaluate_stock, total_passed equals the
\* number of the seven rule outcomes whose passed flag is true, rules_passed
\* and rules_failed partition the seven rules in the fixed order 1..7, and
\* passes_all is true if and only if total_passed = 7.
C5_Aggregation ==
    Returned =>
        LET r == results.value
        IN  /\ Len(rules) = 7
            /\ r.total_passed = Cardinality({i \in 1..7 : rules[i].passed})
            /\ Elements(r.rules_passed) = NamesOf(TRUE)
            /\ Elements(r.rules_failed) = NamesOf(FALSE)
            /\ InRuleOrder(r.rules_passed)
            /\ InRuleOrder(r.rules_failed)
            /\ Elements(r.rules_passed) \cap Elements(r.rules_failed) = {}
            /\ Elements(r.rules_passed) \cup Elements(r.rules_failed)
                    = Elements(RuleNames)
            /\ r.passes_all <=> (r.total_passed = 7)

\* a result in which all seven rules passed
C5_Witness ==
    /\ Returned
    /\ results.value.total_passed = 7
    /\ results.value.passes_all
    /\ results.value.rules_failed = <<>>

\* a result in which six rules passed and one failed
SixOfSeven ==
    /\ Returned
    /\ results.value.total_passed = 6
    /\ Len(results.value.rules_failed) = 1
    /\ ~results.value.passes_all

\* the overview that came back names no company
NoSymbol ==
    /\ ~IsNone(overview)
    /\ Get(overview.value, "Symbol").k \in {"absent", "null", "empty"}
FetchOrder == <<"OVERVIEW", "INCOME_STATEMENT", "BALANCE_SHEET", "DIVIDENDS">>

\* C6: evaluate_stock returns no result if and only if the overview fetch is
\* unavailable or the overview has no company symbol, and then it performs no
\* further fetch; whenever the overview resolves it attempts the income,
\* balance sheet and dividend fetches in that order, treats each unavailable
\* one as an empty dataset, and returns a result with all seven outcomes.
C6_OnlyOverviewIsFatal ==
    Called =>
        /\ calls[1].function = "OVERVIEW"
        /\ calls[1].unavailable <=> IsNone(overview)
        /\ IsNone(results) <=> (calls[1].unavailable \/ NoSymbol)
        /\ IsNone(results) => Len(calls) = 1 /\ rules = <<>>
        /\ ~IsNone(results) =>
            /\ [i \in 1..Len(calls) |-> calls[i].function] = FetchOrder
            /\ calls[2].unavailable => income_statement = EmptyDict
            /\ calls[3].unavailable => balance_sheet = EmptyDict
            /\ calls[4].unavailable => dividends = NoDividends
            /\ Len(rules) = 7
            /\ Len(results.value.rule_details) = 7
            /\ \A i \in 1..7 :
                   results.value.rule_details[i].detail = rules[i].detail

\* the overview resolved and none of the other three datasets came back:
\* the evaluation still returned seven outcomes
C6_Witness ==
    /\ Returned
    /\ ~calls[1].unavailable
    /\ calls[2].unavailable /\ calls[3].unavailable /\ calls[4].unavailable
    /\ Len(rules) = 7
    /\ rules[3].detail.msg = "no income statement data"
    /\ results.value.total_passed >= 1

\* only the income statement is missing
OnlyIncomeMissing ==
    /\ Returned
    /\ calls[2].unavailable /\ ~calls[3].unavailable /\ ~calls[4].unavailable
    /\ ~rules[3].passed

\* the overview came back without a symbol: no result, one fetch
AbortedOnSymbol ==
    /\ Called
    /\ ~calls[1].unavailable
    /\ NoSymbol
    /\ IsNone(results)
    /\ Len(calls) = 1

(***************************************************************************)
(* Evaluations near the ceiling, checked under SpecEval                    *)
(***************************************************************************)
\* a step that is one call of evaluate_stock
EvaluationStep == calls = <<>> /\ calls' # <<>>
\* calls left under the ceiling when the evaluation starts
CallsLeft == max_daily_calls - daily_calls
\* the rules whose pass/fail reads the dataset of fetch j (1 overview,
\* 2 income statement, 3 balance sheet, 4 dividends)
DependsOn(j) ==
    CASE j = 1 -> 1..7
      [] j = 2 -> {3, 5, 6}
      [] j = 3 -> {2, 5, 6}
      [] j = 4 -> {4}
\* what the evaluation reports, in the state after the step
PassesAllAfter == ~IsNone(results') /\ results'.value.passes_all
\* the fetches the ceiling lets through are the first CallsLeft ones
FirstOnesDispatched ==
    \A j \in 1..Len(calls') : (calls'[j].outcome = "blocked") <=> (j > CallsLeft)
\* every rule that reads a dataset the ceiling kept back has failed
UnfetchedFail ==
    \A j \in 1..4 :
        j > CallsLeft =>
            /\ calls'[j].outcome = "blocked"
            /\ \A r \in DependsOn(j) : ~rules'[r].passed

\* C12, as stated: passes_all only if all four fetches were dispatched and
\* returned datasets; an evaluation that starts with fewer than 4 calls left
\* never reports passes_all; with 0 calls left it returns no result, and
\* otherwise it returns a result in which every rule that depends on an
\* unfetched dataset has passed = false.
C12_ResultWheneverCallsLeft ==
    [][EvaluationStep =>
          /\ PassesAllAfter =>
                /\ Len(calls') = 4
                /\ \A j \in 1..4 : calls'[j].outcome = "data"
          /\ CallsLeft < 4 => ~PassesAllAfter
          /\ CallsLeft = 0 => IsNone(results')
          /\ (0 < CallsLeft /\ CallsLeft < 4) =>
                /\ ~IsNone(results')
                /\ UnfetchedFail
      ]_vars

\* C12, amended: as above, but with 1 to 3 calls left the evaluation returns
\* no result when the overview does not resolve, and otherwise a result in
\* which every rule that depends on an unfetched dataset has passed = false.
C12_NoPassNearCeiling ==
    [][EvaluationStep =>
          /\ FirstOnesDispatched
          /\ PassesAllAfter =>
                /\ Len(calls') = 4
                /\ \A j \in 1..4 : calls'[j].outcome = "data"
          /\ CallsLeft < 4 => ~PassesAllAfter
          /\ CallsLeft = 0 =>
                /\ IsNone(results')
                /\ calls' = <<Call("OVERVIEW",
                                   [outcome |-> "blocked", ret |-> None])>>
          /\ (0 < CallsLeft /\ CallsLeft < 4) =>
                /\ IsNone(results') <=>
                      (calls'[1].unavailable \/
                       Get(overview'.value, "Symbol").k
                           \in {"absent", "null", "empty"})
                /\ ~IsNone(results') => UnfetchedFail
      ]_vars

\* the state after an evaluation that started with j - 1 calls left and got
\* a dataset for each of them
StoppedAt(j) ==
    /\ Returned
    /\ daily_calls = max_daily_calls
    /\ \A i \in 1..4 : calls[i].outcome = (IF i < j THEN "data" ELSE "blocked")

\* three calls were left: the dividends were not fetched, rule 4 failed and
\* the other six rules passed
C12_Witness ==
    /\ StoppedAt(4)
    /\ results.value.total_passed = 6
    /\ results.value.rules_failed = <<RuleNames[4]>>
    /\ ~results.value.passes_all

\* one call was left: only the overview was fetched, rules 1 and 7 passed
OnlyOverviewFetched ==
    /\ StoppedAt(2)
    /\ results.value.rules_passed = <<RuleNames[1], RuleNames[7]>>

\* no call was left: no result
NoCallLeft ==
    /\ Called
    /\ calls[1].outcome = "blocked"
    /\ IsNone(results)

\* one to three calls were left and the overview did not come back
NoResultWithCallsLeft ==
    /\ Called
    /\ IsNone(results)
    /\ calls[1].outcome \in {"http", "information", "exception"}
    /\ daily_calls > max_daily_calls - 3

=============================================================================
